---- MODULE Spec2Model ----
(***************************************************************************)
(* Model of oasis_data_manager/filestore/backends/base.py: the root-jailed *)
(* filesystem wrapper StrictRootDirFs and the BaseStorage transfer and     *)
(* cache operations.                                                       *)
(*                                                                         *)
(* A path string is a sequence of one-character strings, so that           *)
(* str.startswith, os.path.join and os.path.abspath are computed on        *)
(* characters exactly as the code computes them.                           *)
(***************************************************************************)
EXTENDS Integers, Sequences, FiniteSets, TLC

(***************************************************************************)
(* Bounds of the model.                                                    *)
(***************************************************************************)
\* longest object content, in bytes
MaxLen == 2
\* number of operations performed in one behaviour
MaxOps == 2
\* number of operations performed in one behaviour of the cache specification
MaxCacheOps == 3
\* number of calls and rewrites begun in one behaviour of the step-by-step specification
MaxRaceOps == 4

(***************************************************************************)
(* Strings.                                                                *)
(***************************************************************************)
sep == "/"
dot == <<".">>
dotdot == <<".", ".">>
Empty == <<>>

startswith(s, p) == Len(p) <= Len(s) /\ SubSeq(s, 1, Len(p)) = p

\* str.rstrip("/")
RECURSIVE rstrip(_)
rstrip(s) ==
    IF s # Empty /\ s[Len(s)] = sep THEN rstrip(SubSeq(s, 1, Len(s) - 1)) ELSE s

\* str.split("/"): the components between separators, empty ones included
RECURSIVE split(_)
split(s) ==
    IF \A i \in 1..Len(s) : s[i] # sep
    THEN <<s>>
    ELSE LET i == CHOOSE k \in 1..Len(s) :
                      s[k] = sep /\ \A j \in 1..(k - 1) : s[j] # sep
         IN  <<SubSeq(s, 1, i - 1)>> \o split(SubSeq(s, i + 1, Len(s)))

\* "/".join(comps)
RECURSIVE join_comps(_)
join_comps(comps) ==
    IF comps = <<>> THEN Empty
    ELSE IF Len(comps) = 1 THEN comps[1]
    ELSE comps[1] \o <<sep>> \o join_comps(Tail(comps))

\* the component loop of posixpath.normpath
RECURSIVE norm_comps(_, _, _)
norm_comps(comps, new_comps, initial_slashes) ==
    IF comps = <<>> THEN new_comps
    ELSE LET comp == Head(comps)
             n    == Len(new_comps)
         IN  IF comp = Empty \/ comp = dot
             THEN norm_comps(Tail(comps), new_comps, initial_slashes)
             ELSE IF \/ comp # dotdot
                     \/ (initial_slashes = 0 /\ n = 0)
                     \/ (n > 0 /\ new_comps[n] = dotdot)
             THEN norm_comps(Tail(comps), Append(new_comps, comp), initial_slashes)
             ELSE IF n > 0
             THEN norm_comps(Tail(comps), SubSeq(new_comps, 1, n - 1), initial_slashes)
             ELSE norm_comps(Tail(comps), new_comps, initial_slashes)

\* posixpath.normpath
normpath(path) ==
    LET slashes(n) == IF n = 2 THEN <<sep, sep>> ELSE IF n = 1 THEN <<sep>> ELSE Empty
        joined(initial_slashes) ==
            slashes(initial_slashes)
                \o join_comps(norm_comps(split(path), <<>>, initial_slashes))
        or_dot(res) == IF res = Empty THEN dot ELSE res
    IN  or_dot(joined(IF ~startswith(path, <<sep>>) THEN 0
                      ELSE IF startswith(path, <<sep, sep>>)
                              /\ ~startswith(path, <<sep, sep, sep>>)
                      THEN 2 ELSE 1))

\* posixpath.join(a, b)
path_join(a, b) ==
    IF startswith(b, <<sep>>) THEN b
    ELSE IF a = Empty \/ a[Len(a)] = sep THEN a \o b
    ELSE a \o <<sep>> \o b

\* working directory of the process
cwd == <<"/", "w">>

\* os.path.abspath
abspath(path) ==
    normpath(IF startswith(path, <<sep>>) THEN path ELSE path_join(cwd, path))

\* os.path.dirname
dirname(path) ==
    LET last_sep(idx) == IF idx = {} THEN 0 ELSE CHOOSE k \in idx : \A j \in idx : j <= k
        stripped(head) == IF head # Empty /\ \E k \in 1..Len(head) : head[k] # sep
                          THEN rstrip(head) ELSE head
    IN  stripped(SubSeq(path, 1, last_sep({i \in 1..Len(path) : path[i] = sep})))

\* str.lstrip("/")
RECURSIVE lstrip(_)
lstrip(s) == IF s # Empty /\ s[1] = sep THEN lstrip(Tail(s)) ELSE s

\* str.encode(): the bytes of a string, as the positions of its characters in the alphabet
Alphabet == <<"/", ".", ":", "a", "c", "d", "e", "f", "h", "o", "p", "r", "s", "t", "w", "x",
              "0", "1", "2", "3", "4", "5", "6", "7", "8", "9", "b", "g", "k", "z",
              "i", "l">>
Encode(str) == [i \in 1..Len(str) |-> CHOOSE k \in 1..Len(Alphabet) : Alphabet[k] = str[i]]

\* q is p itself or lies below p, compared component by component
IsWithin(q, p) == startswith(split(q), split(p))


(***************************************************************************)
(* Digests.  xxhash.xxh64 is a library function; it is modelled by a       *)
(* streaming positional fold of the same shape (update block by block,     *)
(* then hexdigest), of 16 bits, which has no collision on the contents of    *)
(* the model.                                                              *)
(***************************************************************************)
RECURSIVE xxh64_update(_, _)
xxh64_update(h, block) ==
    IF block = <<>> THEN h
    ELSE xxh64_update((h * 31 + Head(block)) % 65536, Tail(block))

HexDigits == <<"0", "1", "2", "3", "4", "5", "6", "7",
               "8", "9", "a", "b", "c", "d", "e", "f">>

\* xxh64.hexdigest(): fixed-width lower-case hexadecimal
hexdigest(h) ==
    << HexDigits[((h \div 4096) % 16) + 1], HexDigits[((h \div 256) % 16) + 1],
       HexDigits[((h \div 16) % 16) + 1],   HexDigits[(h % 16) + 1] >>

\* the blocks fileobj.read(chunk) yields until it returns b""
RECURSIVE read_blocks(_, _)
read_blocks(stream, chunk) ==
    IF stream = <<>> THEN <<>>
    ELSE IF Len(stream) <= chunk THEN <<stream>>
    ELSE <<SubSeq(stream, 1, chunk)>> \o read_blocks(SubSeq(stream, chunk + 1, Len(stream)), chunk)

RECURSIVE hash_blocks(_, _)
hash_blocks(h, blocks) ==
    IF blocks = <<>> THEN h ELSE hash_blocks(xxh64_update(h, Head(blocks)), Tail(blocks))

RECURSIVE write_blocks(_, _)
write_blocks(written, blocks) ==
    IF blocks = <<>> THEN written ELSE write_blocks(written \o Head(blocks), Tail(blocks))

DefaultChunk == 8192

\* _read_and_hash without h.update(block) in its loop
read_and_hash_no_update(fileobj, chunk) ==
    LET loop(blocks) == [hash |-> hexdigest(0), temp |-> write_blocks(<<>>, blocks)]
    IN  loop(read_blocks(fileobj, chunk))

\* _read_and_hash with a fresh xxh64 for every block: the digest of the last block
read_and_hash_last_block(fileobj, chunk) ==
    LET loop(blocks) == [hash |-> hexdigest(IF blocks = <<>> THEN 0
                                            ELSE xxh64_update(0, blocks[Len(blocks)])),
                         temp |-> write_blocks(<<>>, blocks)]
    IN  loop(read_blocks(fileobj, chunk))

\* BaseStorage._read_and_hash: the digest and the bytes of the temporary file
read_and_hash(fileobj, chunk) ==
    LET loop(blocks) == [hash |-> hexdigest(hash_blocks(0, blocks)),
                         temp |-> write_blocks(<<>>, blocks)]
    IN  loop(read_blocks(fileobj, chunk))

(***************************************************************************)
(* The stores.                                                             *)
(***************************************************************************)
ByteVals == {1, 2}

RECURSIVE SeqsUpTo(_)
SeqsUpTo(n) ==
    IF n = 0 THEN {<<>>}
    ELSE SeqsUpTo(n - 1) \cup {Append(s, b) : s \in {t \in SeqsUpTo(n - 1) : Len(t) = n - 1}, b \in ByteVals}

\* object contents
Contents == SeqsUpTo(MaxLen)

\* BaseStorage.root_dir of the storage under study
root_dir == <<"/", "r">>
\* the cache directory, when caching is enabled
cache_dir == <<"/", "c">>

P_a == <<"/", "r", "/", "a">>
P_d == <<"/", "r", "/", "d">>
P_da == <<"/", "r", "/", "d", "/", "a">>
P_x == <<"/", "r", "/", "x">>
P_rr == <<"/", "r", "r">>
P_rrx == <<"/", "r", "r", "/", "x">>
P_o == <<"/", "o">>
P_ox == <<"/", "o", "/", "x">>

FileNode(data, ver, has_etag) ==
    [kind |-> "file", data |-> data, ver |-> ver, has_etag |-> has_etag]
DirNode == [kind |-> "dir", data |-> <<>>, ver |-> 0, has_etag |-> FALSE]
NoNode == [kind |-> "none", data |-> <<>>, ver |-> 0, has_etag |-> FALSE]

\* the node of a filesystem at an absolute, normalised path
NodeAt(fs, p) == IF p \in DOMAIN fs THEN fs[p] ELSE NoNode

\* the files at or below directory d of a filesystem
FilesBelow(fs, d) ==
    {p \in DOMAIN fs : fs[p].kind = "file" /\ startswith(p, d \o <<sep>>)}

\* the reference strings the operations are called with
R_empty == Empty
R_a == <<"a">>
R_d == <<"d">>
R_da == <<"d", "/", "a">>
R_x == <<"x">>
R_up_a == <<"d", "/", ".", ".", "/", "a">>
R_out == <<".", ".", "/", "o", "/", "x">>
R_sib == <<".", ".", "/", "r", "r", "/", "x">>
R_url == <<"h", "t", "t", "p", ":", "/", "/", "h", "/", "a">>
R_dot == <<".">>
R_slash == <<"/">>
R_up == <<"d", "/", ".", ".">>
R_sibdir == <<".", ".", "/", "r", "r">>

Refs == {R_empty, R_a, R_d, R_da, R_x, R_up_a, R_out, R_sib, R_url}

\* references with a scheme, a network location or a symbolic link in them
MoreRefs ==
    {R_a, R_url,
     <<"h", "t", "t", "p", "s", ":", "/", "/", "h", "/", "a">>,        \* https://h/a
     <<"h", "t", "t", "p", ":", "a">>,                                 \* http:a
     <<"h", "t", "t", "p", ":", "/", "a">>,                            \* http:/a
     <<"/", "/", "h", "/", "a">>,                                      \* //h/a
     <<"f", "i", "l", "e", ":", "/", "/", "/", "o", "/", "x">>,        \* file:///o/x
     <<"s", "f", "t", "p", ":", "/", "/", "h", "/", "a">>,             \* sftp://h/a
     <<"l", "/", "x">>}                                                \* l/x, l a link


(***************************************************************************)
(* Filesystem helpers (the local filesystem and the backend behind the     *)
(* jail are both functions from absolute normalised paths to nodes).       *)
(***************************************************************************)
FsPut(fs, p, node) == (p :> node) @@ fs
FsRemove(fs, S) == [q \in (DOMAIN fs) \ S |-> fs[q]]

isdir(fs, p) == NodeAt(fs, p).kind = "dir"
isfile(fs, p) == NodeAt(fs, p).kind = "file"
exists(fs, p) == NodeAt(fs, p).kind # "none"

\* the proper ancestors of a path, the filesystem root excluded
RECURSIVE Ancestors(_)
Ancestors(p) ==
    LET above(d) == IF d = p \/ d = Empty \/ d = <<sep>> THEN {} ELSE {d} \cup Ancestors(d)
    IN  above(dirname(p))

\* os.makedirs(p, exist_ok=True) and Path(p).mkdir(parents=True, exist_ok=True)
\* (every prefix of the path as written is made, each where the system resolves it)
makedirs(fs, p) ==
    LET new(q) == {d \in {abspath(a) : a \in {q} \cup Ancestors(q)} :
                      d # <<sep>> /\ d \notin DOMAIN fs}
    IN  [d \in new(IF startswith(p, <<sep>>) THEN p ELSE path_join(cwd, p)) |-> DirNode] @@ fs

\* the exception of os.makedirs(p, exist_ok=True) and Path(p).mkdir(parents=True,
\* exist_ok=True) when p or a directory above it is a file, or "none"
mkdir_error(fs, p) ==
    LET err(q) == IF isfile(fs, abspath(q)) THEN "FileExistsError"
                  ELSE IF \E a \in Ancestors(q) : isfile(fs, abspath(a))
                  THEN "NotADirectoryError"
                  ELSE "none"
    IN  err(IF startswith(p, <<sep>>) THEN p ELSE path_join(cwd, p))

\* os.path.basename
basename(path) ==
    LET last_sep(idx) == IF idx = {} THEN 0 ELSE CHOOSE k \in idx : \A j \in idx : j <= k
    IN  SubSeq(path, last_sep({i \in 1..Len(path) : path[i] = sep}) + 1, Len(path))

\* a write that loses the last byte
write_file_truncated(fs, target, name, data) ==
    LET at(q)   == FsPut(fs, q, FileNode(SubSeq(data, 1, Len(data) - 1),
                                         NodeAt(fs, q).ver + 1, TRUE))
        into(t) == at(IF isdir(fs, t) THEN abspath(path_join(t, name)) ELSE t)
    IN  into(abspath(target))

\* writing a file at a path; into the directory when the path is one
\* (shutil.copy, fsspec get and put with an existing directory as target)
write_file(fs, target, name, data) ==
    LET at(q)   == FsPut(fs, q, FileNode(data, NodeAt(fs, q).ver + 1, TRUE))
        into(t) == at(IF isdir(fs, t) THEN abspath(path_join(t, name)) ELSE t)
    IN  into(abspath(target))

(***************************************************************************)
(* URLs.                                                                   *)
(***************************************************************************)
Letters == {"a", "c", "d", "e", "f", "h", "i", "l", "o", "p", "r", "s", "t", "w", "x"}
SchemeChars == Letters \cup {"0", "1", "2", "+", "-", "."}

IndexOf(s, c) ==
    IF \E i \in 1..Len(s) : s[i] = c
    THEN CHOOSE i \in 1..Len(s) : s[i] = c /\ \A j \in 1..(i - 1) : s[j] # c
    ELSE 0

\* urllib.parse.urlparse, restricted to scheme, netloc and path
urlparse(url) ==
    LET cut(scheme, after, k) ==
            [scheme |-> scheme,
             netloc |-> IF k = 0 THEN after ELSE SubSeq(after, 1, k - 1),
             path   |-> IF k = 0 THEN Empty ELSE SubSeq(after, k, Len(after))]
        netloc_path(scheme, after) == cut(scheme, after, IndexOf(after, sep))
        parts(scheme, rest) ==
            IF startswith(rest, <<sep, sep>>)
            THEN netloc_path(scheme, SubSeq(rest, 3, Len(rest)))
            ELSE [scheme |-> scheme, netloc |-> Empty, path |-> rest]
        has_scheme(i) == /\ i > 1
                         /\ url[1] \in Letters
                         /\ \A j \in 1..(i - 1) : url[j] \in SchemeChars
        scheme_rest(i) ==
            parts(IF has_scheme(i) THEN SubSeq(url, 1, i - 1) ELSE Empty,
                  IF has_scheme(i) THEN SubSeq(url, i + 1, Len(url)) ELSE url)
    IN  scheme_rest(IndexOf(url, ":"))

\* _is_valid_url without the test of the scheme
is_valid_url_any_scheme(url) ==
    LET valid(result) == result.scheme # Empty /\ result.netloc # Empty
    IN  IF url # Empty THEN valid(urlparse(url)) ELSE FALSE

\* BaseStorage._is_valid_url
is_valid_url(url) ==
    LET valid(result) ==
            /\ result.scheme # Empty /\ result.netloc # Empty
            /\ result.scheme \in {<<"h", "t", "t", "p">>, <<"h", "t", "t", "p", "s">>}
    IN  IF url # Empty THEN valid(urlparse(url)) ELSE FALSE

\* what an anonymous GET of a URL answers: the one object of the web server
WebHas(url) == url \in {R_url, <<"h", "t", "t", "p", "s", ":", "/", "/", "h", "/", "a">>}
WebData(url) == <<1, 2>>

(***************************************************************************)
(* StrictRootDirFs.                                                        *)
(***************************************************************************)
\* DirFileSystem._join for a string path (fsspec): root joined with the path
dirfs_join(path) ==
    IF root_dir = Empty THEN path
    ELSE IF path = Empty THEN root_dir
    ELSE root_dir \o <<sep>> \o rstrip(path)

\* StrictRootDirFs._path_is_in_root
path_is_in_root(path) == startswith(abspath(path), abspath(root_dir))

\* StrictRootDirFs._join: the joined path, or FileNotFoundError
jail_join(path) ==
    LET checked(res) == [ok |-> path_is_in_root(res), res |-> res]
    IN  checked(dirfs_join(path))

\* the symbolic links of the backend's filesystem: the entry l of the root points
\* at the directory /o outside the root; no operation of the model makes or
\* removes a link
Symlinks == (path_join(root_dir, <<"l">>) :> P_o)

\* the backend resolves the joined path as a filesystem does, links followed
backend_path(joined) ==
    LET via(p, l) == Symlinks[l] \o SubSeq(p, Len(l) + 1, Len(p))
        followed(p) ==
            IF \E l \in DOMAIN Symlinks : IsWithin(p, l)
            THEN via(p, CHOOSE l \in DOMAIN Symlinks : IsWithin(p, l))
            ELSE p
    IN  followed(abspath(joined))

\* the path arguments the jailed filesystem is called with
JailArgs == Refs \cup {R_dot, R_slash, R_up, R_sibdir}

\* StrictRootDirFs._join of an argument, with the backend path it leads to
jail_of(r) ==
    LET resolved(j) == [ok |-> j.ok, res |-> j.res, path |-> backend_path(j.res)]
    IN  resolved(jail_join(r))

JailTable == [r \in JailArgs |-> jail_of(r)]

\* the table above where it applies, the computation elsewhere
Jail(r) == IF r \in JailArgs THEN JailTable[r] ELSE jail_of(r)


(***************************************************************************)
(* State.                                                                  *)
(***************************************************************************)
VARIABLES
    cache_root,  \* BaseStorage.cache_root: the cache directory, or empty when disabled
    store,       \* the backend's objects, by absolute path
    local,       \* the local filesystem: cache directory and output targets
    last,        \* the outcome of the most recent call
    fetched,     \* per reference, the outcome of its last successful cached fetch
    nops,        \* number of operations performed
    procs,       \* per process, the get_from_cache call it is executing
    raced        \* references whose concurrent fetches overlapped a change of the object

vars == <<cache_root, store, local, last, fetched, nops, procs, raced>>

\* the processes that share one cache directory
Procs == {"p", "q"}

\* a process that has called nothing yet
Idle == [pc |-> "idle", ref |-> Empty, stream |-> <<>>, h |-> 0, temp |-> Empty,
         cached |-> Empty, data |-> <<>>, eof |-> FALSE, err |-> "none", res |-> Empty,
         solo |-> FALSE, after_race |-> FALSE,
         chunk |-> DefaultChunk]    \* the chunk argument of _read_and_hash

NoPrior == [valid |-> FALSE, res |-> Empty, data |-> <<>>, ver |-> 0, has_etag |-> FALSE]

\* the files of a filesystem that an operation created or rewrote
Written(before, after) ==
    {q \in DOMAIN after :
        after[q].kind = "file" /\ (q \notin DOMAIN before \/ before[q] # after[q])}

\* the object a resolved path names, when the jail admits the path
JailNode(st, j) == IF j.ok THEN NodeAt(st, j.path) ELSE NoNode

\* the outcome of a call, as the caller and the filesystem observe it
Outcome(op, ref, err, res, ret, data, opened, touched, after) ==
    [op      |-> op,                  \* operation called
     ref     |-> ref,                 \* its reference argument
     err     |-> err,                 \* exception raised, or "none"
     res     |-> res,                 \* path returned (empty for None)
     ret     |-> ret,                 \* boolean returned by a probe
     required |-> FALSE,              \* its required argument, where it has one
     target  |-> Empty,               \* the local path it was given or chose
     dest    |-> Empty,               \* get's output_path joined with its subdir
     arcname |-> Empty,               \* put's arcname argument
     data    |-> data,                \* bytes streamed from the object
     opened  |-> opened,              \* byte streams opened on the object
     warned  |-> {},                  \* references named in logged warnings
     touched |-> touched,             \* backend objects read, written or deleted, URLs requested
     wrote   |-> Written(local, after),
     before  |-> local,               \* the local filesystem before the call
     node    |-> JailNode(store, Jail(ref)),  \* what info(ref) describes at the call
     prior   |-> IF ref \in DOMAIN fetched THEN fetched[ref] ELSE NoPrior]

Touch(op, p) == [op |-> op, path |-> p]

(***************************************************************************)
(* Backend access through the jail.                                        *)
(***************************************************************************)
\* StrictRootDirFs.open(reference, "rb")
open_rb(reference) ==
    LET opened(j, n) ==
            IF ~j.ok THEN [err |-> "FileNotFoundError", data |-> <<>>, touched |-> {}]
            ELSE IF n.kind = "none"
            THEN [err |-> "FileNotFoundError", data |-> <<>>, touched |-> {}]
            ELSE IF n.kind = "dir"
            THEN [err |-> "IsADirectoryError", data |-> <<>>, touched |-> {}]
            ELSE [err |-> "none", data |-> n.data, touched |-> {Touch("read", j.path)}]
        at(j) == opened(j, NodeAt(store, j.path))
    IN  at(Jail(reference))

\* urllib.request.urlopen(reference)
url_open(reference) ==
    IF WebHas(reference)
    THEN [err |-> "none", data |-> WebData(reference),
          touched |-> {Touch("GET", reference)}]
    ELSE [err |-> "URLError", data |-> <<>>, touched |-> {Touch("GET", reference)}]

\* the recursive copy of backend directory p to the local path base
copy_tree(lc, p, base) ==
    LET rel(f) == SubSeq(f, Len(p) + 1, Len(f))
        dirs(b, files) ==
            (({b} \cup Ancestors(b) \cup UNION {Ancestors(b \o rel(f)) : f \in files})
                \ {<<sep>>}) \ DOMAIN lc
        copied(b, files) ==
            [q \in {b \o rel(f) : f \in files} |->
                FileNode(store[p \o SubSeq(q, Len(b) + 1, Len(q))].data, 1, TRUE)]
            @@ [q \in dirs(b, files) |-> DirNode] @@ lc
    IN  copied(abspath(base), FilesBelow(store, p))

\* StrictRootDirFs.get(reference, target, recursive=True)
fs_get(reference, target, lc) ==
    LET got(j, n) ==
            IF ~j.ok \/ n.kind = "none"
            THEN [err |-> "FileNotFoundError", lc |-> lc, data |-> <<>>, touched |-> {}]
            ELSE IF n.kind = "file"
            THEN [err |-> "none", lc |-> write_file(lc, target, basename(j.path), n.data),
                  data |-> n.data, touched |-> {Touch("read", j.path)}]
            ELSE IF isfile(lc, abspath(target))
            THEN [err |-> "FileExistsError", lc |-> lc, data |-> <<>>, touched |-> {}]
            ELSE [err |-> "none",
                  lc |-> copy_tree(lc, j.path, IF isdir(lc, abspath(target))
                                               THEN path_join(target, basename(j.path))
                                               ELSE target),
                  data |-> <<>>,
                  touched |-> {Touch("read", f) : f \in FilesBelow(store, j.path)}]
        at(j) == got(j, NodeAt(store, j.path))
    IN  at(Jail(reference))

(***************************************************************************)
(* BaseStorage.get_from_cache                                              *)
(***************************************************************************)
\* the blob named after the reference's file name instead of the content hash
cached_path_by_name(reference, hash_value) == path_join(cache_root, basename(reference))

\* cached_path = content_dir / hash_value
cached_path_of(reference, hash_value) == path_join(cache_root, hash_value)

\* os.replace(temp_path, cached_path) unless the blob exists, else os.unlink(temp_path)
publish(lc, temp, cached_path) ==
    IF ~exists(lc, cached_path)
    THEN FsPut(lc, cached_path, FileNode(temp, 1, TRUE))
    ELSE lc

\* a result that reports no exception whatever happened
GfcOut_swallowed(err, res, lc, data, opened, touched) ==
    [err |-> "none", res |-> res, lc |-> lc, data |-> data, opened |-> opened, touched |-> touched]

\* what a call of get_from_cache gives: exception, returned path, local files, bytes read
GfcOut(err, res, lc, data, opened, touched) ==
    [err |-> err, res |-> res, lc |-> lc, data |-> data, opened |-> opened, touched |-> touched]

get_from_cache(reference, required, no_cache_target, lc) ==
    LET save_url(lc1, u, t) ==
            IF u.err # "none" THEN GfcOut(u.err, Empty, lc1, <<>>, 0, u.touched)
            ELSE IF isdir(lc1, t)
            THEN GfcOut("IsADirectoryError", Empty, lc1, <<>>, 1, u.touched)
            ELSE GfcOut("none", no_cache_target,
                        FsPut(lc1, t, FileNode(u.data, NodeAt(lc1, t).ver + 1, TRUE)),
                        u.data, 1, u.touched)
        save_get(lc1, g) ==
            IF g.err # "none" THEN GfcOut(g.err, Empty, lc1, <<>>, 0, {})
            ELSE GfcOut("none", no_cache_target, g.lc, g.data, 1, g.touched)
        uncached(lc1) ==
            IF is_valid_url(reference)
            THEN save_url(lc1, url_open(reference), abspath(no_cache_target))
            ELSE save_get(lc1, fs_get(reference, no_cache_target, lc1))
        stored(lc1, src, rh, cached_path) ==
            GfcOut("none", cached_path, publish(lc1, rh.temp, cached_path),
                   src.data, 1, src.touched)
        hashed(lc1, src, rh) == stored(lc1, src, rh, cached_path_of(reference, rh.hash))
        cached(lc1, src) ==
            IF src.err # "none" THEN GfcOut(src.err, Empty, lc1, <<>>, 0, src.touched)
            ELSE hashed(lc1, src, read_and_hash(src.data, DefaultChunk))
    IN  IF reference = Empty
        THEN GfcOut(IF required THEN "MissingInputsException" ELSE "none",
                    Empty, lc, <<>>, 0, {})
        ELSE IF cache_root = Empty
        THEN IF no_cache_target = Empty
             THEN GfcOut("OasisException", Empty, lc, <<>>, 0, {})
             ELSE IF mkdir_error(lc, dirname(no_cache_target)) # "none"
             THEN GfcOut(mkdir_error(lc, dirname(no_cache_target)), Empty, lc, <<>>, 0, {})
             ELSE uncached(makedirs(lc, dirname(no_cache_target)))
        ELSE cached(makedirs(lc, cache_root),
                    IF is_valid_url(reference) THEN url_open(reference)
                    ELSE open_rb(reference))

\* the history kept of a successful cached fetch
Fetch(ref, o) ==
    LET of(n) == [valid |-> TRUE, res |-> o.res, data |-> o.data,
                  ver |-> n.ver, has_etag |-> n.has_etag]
    IN  of(JailNode(store, Jail(ref)))

Remember(ref, o) ==
    IF o.err = "none" /\ o.res # Empty /\ cache_root # Empty
    THEN [fetched EXCEPT ![ref] = Fetch(ref, o)]
    ELSE fetched

\* no_cache_target arguments
Targets == {Empty, <<"/", "w", "/", "t">>}

GetFromCache(reference, required, no_cache_target) ==
    \E o \in {get_from_cache(reference, required, no_cache_target, local)} :
        /\ local' = o.lc
        /\ last' = [Outcome("get_from_cache", reference, o.err, o.res, FALSE,
                            o.data, o.opened, o.touched, o.lc)
                       EXCEPT !.required = required, !.target = no_cache_target]
        /\ fetched' = Remember(reference, o)
        /\ UNCHANGED <<cache_root, store>>


(***************************************************************************)
(* BaseStorage.get                                                         *)
(***************************************************************************)
\* output_path and subdir arguments
OutputPaths == {<<"/", "w">>, <<"/", "w", "/", "t">>}
Subdirs == {Empty, <<"s">>}

get_target(reference, output_path, subdir, lc) ==
    LET placed(target) ==
            IF isdir(lc, target)
            THEN path_join(output_path, IF is_valid_url(reference)
                                        THEN basename(urlparse(reference).path)
                                        ELSE reference)
            ELSE target
    IN  placed(abspath(IF subdir # Empty THEN path_join(output_path, subdir)
                       ELSE output_path))

\* BaseStorage.get: the exception, the path returned, the local files afterwards,
\* with the target it chose and what get_from_cache gave it
get(reference, output_path, subdir, required, lc) ==
    LET finish(target, o, err, lc2) ==
            [err |-> err, res |-> IF err = "none" /\ o.res # Empty THEN target ELSE Empty,
             lc |-> lc2, data |-> o.data, opened |-> o.opened, touched |-> o.touched,
             target |-> target, o |-> o]
        copy(target, o, err) ==
            IF err # "none" THEN finish(target, o, err, o.lc)
            ELSE finish(target, o, "none",
                        write_file(makedirs(o.lc, dirname(target)), target,
                                   basename(o.res), NodeAt(o.lc, abspath(o.res)).data))
        after(target, o) ==
            IF o.err = "none" /\ o.res # Empty /\ o.res # target
            THEN copy(target, o, mkdir_error(o.lc, dirname(target)))
            ELSE finish(target, o, o.err, o.lc)
        fetch(target) == after(target, get_from_cache(reference, required, target, lc))
    IN  IF reference = Empty
        THEN finish(Empty, GfcOut("none", Empty, lc, <<>>, 0, {}),
                    IF required THEN "MissingInputsException" ELSE "none", lc)
        ELSE fetch(get_target(reference, output_path, subdir, lc))

Get(reference, output_path, subdir, required) ==
    \E g \in {get(reference, output_path, subdir, required, local)} :
        /\ local' = g.lc
        /\ last' = [Outcome("get", reference, g.err, g.res, FALSE,
                            g.data, g.opened, g.touched, g.lc)
                       EXCEPT !.required = required, !.target = g.target,
                              !.dest = IF reference = Empty THEN Empty
                                       ELSE abspath(IF subdir # Empty
                                                    THEN path_join(output_path, subdir)
                                                    ELSE output_path)]
        /\ fetched' = Remember(reference, g.o)
        /\ UNCHANGED <<cache_root, store>>

(***************************************************************************)
(* Existence probes: StrictRootDirFs.exists, isfile, isdir                 *)
(***************************************************************************)
probe(kind, path) ==
    LET answer(j) ==
            IF ~j.ok THEN [ret |-> FALSE, touched |-> {}]
            ELSE [ret |-> IF kind = "exists" THEN exists(store, j.path)
                          ELSE IF kind = "isfile" THEN isfile(store, j.path)
                          ELSE isdir(store, j.path),
                  touched |-> {Touch("stat", j.path)}]
    IN  answer(Jail(path))

Probe(kind, path) ==
    /\ \E a \in {probe(kind, path)} :
          last' = Outcome(kind, path, "none", Empty, a.ret, <<>>, 0, a.touched, local)
    /\ UNCHANGED <<cache_root, store, local, fetched>>

Exists(path) == Probe("exists", path)
IsFile(path) == Probe("isfile", path)
IsDir(path) == Probe("isdir", path)

(***************************************************************************)
(* BaseStorage.delete_file and BaseStorage.delete_dir                      *)
(***************************************************************************)
\* Path(reference).resolve(), on a filesystem without symbolic links
path_resolve(reference) == abspath(reference)

\* StrictRootDirFs.delete(path, recursive): the objects removed
fs_delete(path, recursive) ==
    LET removed(j) ==
            IF ~j.ok \/ ~exists(store, j.path)
            THEN [err |-> "FileNotFoundError", gone |-> {}]
            ELSE IF isdir(store, j.path) /\ ~recursive /\ FilesBelow(store, j.path) # {}
            THEN [err |-> "OSError", gone |-> {}]
            ELSE [err |-> "none",
                  gone |-> {q \in DOMAIN store :
                              q = j.path \/ (recursive /\ startswith(q, j.path \o <<sep>>))}]
    IN  removed(Jail(path))

Deleted(op, reference, d) ==
    /\ store' = FsRemove(store, d.gone)
    /\ last' = Outcome(op, reference, d.err, Empty, d.err = "none", <<>>, 0,
                       {Touch("delete", q) : q \in d.gone}, local)
    /\ UNCHANGED <<cache_root, local, fetched>>

NotDeleted(op, reference) ==
    /\ last' = Outcome(op, reference, "none", Empty, FALSE, <<>>, 0, {}, local)
    /\ UNCHANGED <<cache_root, store, local, fetched>>

DeleteFile(reference) ==
    IF probe("isfile", reference).ret
    THEN \E d \in {fs_delete(reference, FALSE)} : Deleted("delete_file", reference, d)
    ELSE NotDeleted("delete_file", reference)

DeleteDir(reference) ==
    IF probe("isdir", reference).ret
    THEN IF path_resolve(reference) = <<sep>>
         THEN NotDeleted("delete_dir", reference)
         ELSE \E d \in {fs_delete(reference, TRUE)} : Deleted("delete_dir", reference, d)
    ELSE NotDeleted("delete_dir", reference)

(***************************************************************************)
(* BaseStorage.compress and BaseStorage.put                                *)
(***************************************************************************)
\* byte strings in lexicographic order
lex_less(a, b) ==
    \E i \in 1..(Len(a) + 1) :
        /\ i <= Len(b)
        /\ \A j \in 1..(i - 1) : a[j] = b[j]
        /\ (i = Len(a) + 1 \/ a[i] < b[i])

\* an archive: its members in name order, each as
\* <length of name, name, length of data, data>
RECURSIVE tar_bytes(_)
tar_bytes(members) ==
    IF members = {} THEN <<>>
    ELSE LET entry(m) == <<Len(m.name)>> \o Encode(m.name) \o <<Len(m.data)>> \o m.data
                             \o tar_bytes(members \ {m})
         IN  entry(CHOOSE x \in members :
                      \A y \in members \ {x} : lex_less(Encode(x.name), Encode(y.name)))

\* BaseStorage.compress: the bytes of the archive of a local directory
compress(lc, directory, arcname) ==
    LET arc == IF arcname # Empty THEN arcname ELSE <<sep>>
        member(d, f) == [name |-> lstrip(path_join(arc, SubSeq(f, Len(d) + 2, Len(f)))),
                         data |-> lc[f].data]
        archive(d) == tar_bytes({member(d, f) : f \in FilesBelow(lc, d)})
    IN  archive(abspath(directory))

\* "".join(Path(reference).suffixes)
suffixes(reference) ==
    LET from(name, dots) ==
            IF name = Empty \/ name[Len(name)] = "." \/ dots = {} THEN Empty
            ELSE SubSeq(name, CHOOSE i \in dots : \A j \in dots : i <= j, Len(name))
        of(name) == from(name, {i \in 2..Len(name) :
                                   name[i] = "." /\ \E j \in 1..(i - 1) : name[j] # "."})
    IN  of(basename(reference))

\* the hexadecimal strings uuid.uuid4().hex may give
UuidHex == {<<"0", "b">>}

\* BaseStorage._get_unique_filename
get_unique_filename(uuid, suffix) ==
    uuid \o <<".">> \o (IF startswith(suffix, <<".">>) THEN Tail(suffix) ELSE suffix)

\* StrictRootDirFs.mkdirs(path, exist_ok=True)
fs_mkdirs(st, path) ==
    LET made(st1) == [err |-> "none", store |-> st1,
                      touched |-> {Touch("write", q) : q \in DOMAIN st1 \ DOMAIN st}]
        at(j) == IF ~j.ok THEN [err |-> "FileNotFoundError", store |-> st, touched |-> {}]
                 ELSE IF isfile(st, j.path)
                 THEN [err |-> "FileExistsError", store |-> st, touched |-> {}]
                 ELSE made(makedirs(st, j.path))
    IN  at(Jail(path))

\* StrictRootDirFs.put(lpath, rpath) of the local bytes data named name
fs_put(st, name, data, rpath) ==
    LET written(st2) == [err |-> "none", store |-> st2,
                         touched |-> {Touch("write", q) : q \in Written(st, st2)}]
        at(j) == IF ~j.ok THEN [err |-> "FileNotFoundError", store |-> st, touched |-> {}]
                 ELSE written(write_file(makedirs(st, dirname(j.path)), j.path, name, data))
    IN  at(Jail(rpath))

\* a put that makes a directory for the object before it looks at the reference
put_none_after_mkdirs ==
    [err |-> "none", res |-> Empty, store |-> makedirs(store, path_join(root_dir, <<"n">>)),
     touched |-> {Touch("write", path_join(root_dir, <<"n">>))}]

\* `return None` of put: nothing raised, nothing returned, nothing stored
put_none == [err |-> "none", res |-> Empty, store |-> store, touched |-> {}]

\* BaseStorage.put: the exception, the reference returned, the backend afterwards
put(reference, filename, subdir, suffix, arcname, uuid, lc) ==
    LET none == put_none
        done(m, w, res) ==
            IF w.err # "none"
            THEN [err |-> w.err, res |-> Empty, store |-> m.store, touched |-> m.touched]
            ELSE [err |-> "none", res |-> res, store |-> w.store,
                  touched |-> m.touched \cup w.touched]
        sent(m, name, data, rpath) ==
            IF m.err # "none" THEN [none EXCEPT !.err = m.err]
            ELSE done(m, fs_put(m.store, name, data, rpath), rpath)
        put_file(src, storage_path, fname) ==
            sent(fs_mkdirs(store, dirname(storage_path)), basename(reference),
                 lc[src].data, path_join(storage_path, fname))
        put_dir(storage_path) ==
            sent(fs_mkdirs(store, dirname(storage_path)), <<"t", "m", "p">>,
                 compress(lc, reference, arcname), storage_path)
        named(ext) == IF filename # Empty THEN filename ELSE get_unique_filename(uuid, ext)
        dir_path(fname) == IF subdir # Empty THEN path_join(subdir, fname) ELSE fname
        from(src) ==
            IF isfile(lc, src)
            THEN put_file(src, subdir,
                          named(IF suffix = Empty THEN suffixes(reference) ELSE suffix))
            ELSE IF isdir(lc, src)
            THEN put_dir(dir_path(named(IF suffix = Empty
                                        THEN <<"t", "a", "r", ".", "g", "z">> ELSE suffix)))
            ELSE none
    IN  IF reference = Empty THEN none ELSE from(abspath(reference))

\* arguments of put
LocalFile == <<"/", "w", "/", "f", ".", "z">>
LocalDir == <<"/", "w", "/", "k">>
LocalDirFile == <<"/", "w", "/", "k", "/", "a">>
LocalSubDir == <<"/", "w", "/", "k", "/", "e">>
LocalSubDirFile == <<"/", "w", "/", "k", "/", "e", "/", "b">>
PutSources == {Empty, LocalFile, LocalDir, <<"/", "w", "/", "x">>}
PutFilenames == {Empty, <<"x">>, R_sib, R_out}
PutSubdirs == {Empty, <<"d">>}
PutSuffixes == {Empty, <<".", "z">>}
PutArcnames == {Empty, <<"k">>}

Put(reference, filename, subdir, suffix, arcname) ==
    \E uuid \in UuidHex :
    \E o \in {put(reference, filename, subdir, suffix, arcname, uuid, local)} :
        /\ store' = o.store
        /\ last' = [Outcome("put", filename, o.err, o.res, FALSE, <<>>, 0, o.touched, local)
                       EXCEPT !.node = IF o.res # Empty THEN JailNode(o.store, Jail(o.res))
                                       ELSE NoNode,
                              !.target = reference, !.arcname = arcname]
        /\ UNCHANGED <<cache_root, local, fetched>>

(***************************************************************************)
(* BaseStorage.open                                                        *)
(***************************************************************************)
\* the directory tempfile.TemporaryDirectory() creates
temp_dir == <<"/", "t">>

\* StrictRootDirFs.open(path, "w") followed by a write of data and close
open_w(path, data) ==
    LET at(j) ==
            IF ~j.ok THEN [err |-> "FileNotFoundError", store |-> store, touched |-> {}]
            ELSE IF isdir(store, j.path)
            THEN [err |-> "IsADirectoryError", store |-> store, touched |-> {}]
            ELSE IF ~isdir(store, dirname(j.path))
            THEN [err |-> "FileNotFoundError", store |-> store, touched |-> {}]
            ELSE [err |-> "none",
                  store |-> FsPut(store, j.path,
                                  FileNode(data, NodeAt(store, j.path).ver + 1, TRUE)),
                  touched |-> {Touch("write", j.path)}]
    IN  at(Jail(path))

\* open of a URL: the file get_from_cache returns, read inside a temporary directory
OpenUrl(path) ==
    \E o \in {get_from_cache(path, FALSE, path_join(temp_dir, <<"f">>),
                             makedirs(local, temp_dir))} :
    \E kept \in {FsRemove(o.lc, {q \in DOMAIN o.lc : q = temp_dir
                                      \/ startswith(q, temp_dir \o <<sep>>)})} :
        /\ local' = kept
        /\ last' = Outcome("open", path, o.err, o.res, FALSE,
                           IF o.err = "none" THEN NodeAt(o.lc, abspath(o.res)).data ELSE <<>>,
                           o.opened, o.touched, kept)
        /\ fetched' = Remember(path, o)
        /\ UNCHANGED <<cache_root, store>>

\* with storage.open(path) as f: f.read()
OpenRead(path) ==
    IF is_valid_url(path)
    THEN OpenUrl(path)
    ELSE \E o \in {open_rb(path)} :
            /\ last' = Outcome("open", path, o.err, Empty, FALSE, o.data,
                               IF o.err = "none" THEN 1 ELSE 0, o.touched, local)
            /\ UNCHANGED <<cache_root, store, local, fetched>>

\* with storage.open(path, "w") as f: f.write(data)
OpenWrite(path, data) ==
    IF is_valid_url(path)
    THEN OpenUrl(path)
    ELSE \E o \in {open_w(path, data)} :
            /\ store' = o.store
            /\ last' = Outcome("open_w", path, o.err, Empty, FALSE, <<>>, 0, o.touched, local)
            /\ UNCHANGED <<cache_root, local, fetched>>

\* the end of `with tempfile.TemporaryDirectory()`: the directory and all below it go
rmtree(lc, d) == FsRemove(lc, {q \in DOMAIN lc : q = d \/ startswith(q, d \o <<sep>>)})

(***************************************************************************)
(* BaseStorage.with_fileno                                                 *)
(***************************************************************************)
\* the modes a caller may ask for, and what the caller writes to the file it is given
Modes == {"rb", "wb", "ab", "r+b"}
FilenoWrites == {<<>>, <<2>>}

\* builtin open(path, mode) followed by a write of c and close: the file's bytes
\* afterwards ("wb" truncates at open, "ab" appends, "r+b" overwrites from the start)
reopened(data, mode, c) ==
    IF mode = "rb" THEN data
    ELSE IF mode = "wb" THEN c
    ELSE IF mode = "ab" THEN data \o c
    ELSE c \o SubSeq(data, Len(c) + 1, Len(data))

\* with storage.with_fileno(path, mode) as f: f.write(c)
with_fileno(path, mode, c, lc) ==
    LET out(err, o, lc2, at, data) ==
            [err |-> err, lc |-> rmtree(lc2, temp_dir), at |-> at, data |-> data, o |-> o]
        opened(o, p, n) ==
            IF n.kind = "dir" THEN out("IsADirectoryError", o, o.lc, p, <<>>)
            ELSE IF n.kind = "none" /\ mode \in {"rb", "r+b"}
            THEN out("FileNotFoundError", o, o.lc, p, <<>>)
            ELSE out("none", o,
                     IF mode = "rb" THEN o.lc
                     ELSE FsPut(o.lc, p, FileNode(reopened(n.data, mode, c), n.ver + 1, TRUE)),
                     p, n.data)
        got(o) ==
            IF o.err # "none" THEN out(o.err, o, o.lc, Empty, <<>>)
            ELSE IF o.res = Empty THEN out("TypeError", o, o.lc, Empty, <<>>)
            ELSE opened(o, abspath(o.res), NodeAt(o.lc, abspath(o.res)))
    IN  got(get_from_cache(path, FALSE, path_join(temp_dir, <<"f", "i", "l", "e", "n", "o">>),
                           makedirs(lc, temp_dir)))

WithFileno(path, mode, c) ==
    \E w \in {with_fileno(path, mode, c, local)} :
        /\ local' = w.lc
        /\ last' = [Outcome("with_fileno", path, w.err, Empty, FALSE, w.data,
                            w.o.opened, w.o.touched, w.lc)
                       EXCEPT !.target = w.at]
        /\ fetched' = Remember(path, w.o)
        /\ UNCHANGED <<cache_root, store>>

(***************************************************************************)
(* BaseStorage.create_traceback                                            *)
(***************************************************************************)
LOG_FILE_SUFFIX == <<"t", "x", "t">>

\* io.DEFAULT_BUFFER_SIZE: what a text file holds back until it is flushed or closed
TextBuffer == 8192

\* the bytes of a file opened in text mode that are on the disk after text was
\* written to it and before any flush or close: whole buffers only
on_disk(text) == SubSeq(text, 1, (Len(text) \div TextBuffer) * TextBuffer)

\* BaseStorage.create_traceback: the put of the temporary file, as the disk holds it
create_traceback(stdout, stderr, uuid) ==
    LET named(f, traceback_file) ==
            put(f, traceback_file, Empty, Empty, Empty, uuid,
                FsPut(makedirs(local, temp_dir), f, FileNode(on_disk(stdout \o stderr), 1, TRUE)))
    IN  named(path_join(temp_dir, <<"n">>), get_unique_filename(uuid, LOG_FILE_SUFFIX))

\* stdout and stderr arguments, as bytes
Stdouts == {<<>>, <<1>>}
Stderrs == {<<>>, <<2>>}

CreateTraceback(stdout, stderr) ==
    \E uuid \in UuidHex :
    \E o \in {create_traceback(stdout, stderr, uuid)} :
        /\ store' = o.store
        /\ last' = [Outcome("create_traceback", Empty, o.err,
                            IF o.err = "none" THEN get_unique_filename(uuid, LOG_FILE_SUFFIX)
                            ELSE Empty,
                            FALSE, stdout \o stderr, 0, o.touched, local)
                       EXCEPT !.node = JailNode(o.store,
                                                Jail(get_unique_filename(uuid, LOG_FILE_SUFFIX)))]
        /\ UNCHANGED <<cache_root, local, fetched>>

(***************************************************************************)
(* BaseStorage.extract                                                     *)
(***************************************************************************)
\* bytes.decode(): the string of a member's name
Decode(bytes) == [i \in 1..Len(bytes) |-> Alphabet[bytes[i]]]

\* tarfile.open on the bytes of an archive: its members, or not an archive
RECURSIVE untar(_)
untar(bytes) ==
    LET bad == [ok |-> FALSE, members |-> {}]
        cons(m, rest) == [ok |-> rest.ok, members |-> {m} \cup rest.members]
        data(n, k) ==
            IF Len(bytes) < n + 2 + k
            THEN bad
            ELSE cons([name |-> Decode(SubSeq(bytes, 2, n + 1)),
                       data |-> SubSeq(bytes, n + 3, n + 2 + k)],
                      untar(SubSeq(bytes, n + 3 + k, Len(bytes))))
        body(n) ==
            IF Len(bytes) < n + 2 \/ \E i \in 2..(n + 1) : bytes[i] \notin 1..Len(Alphabet)
            THEN bad
            ELSE data(n, bytes[n + 2])
    IN  IF bytes = <<>> THEN [ok |-> TRUE, members |-> {}] ELSE body(bytes[1])

\* an extraction that puts every member into the directory itself, its path dropped
extractall_flat(lc, directory, members) ==
    LET at(m) == abspath(path_join(directory, basename(m.name)))
        placed(files) ==
            [q \in files |-> FileNode((CHOOSE m \in members : at(m) = q).data,
                                      NodeAt(lc, q).ver + 1, TRUE)]
            @@ lc
    IN  placed({at(m) : m \in members})

\* TarFile.extractall(directory)
extractall(lc, directory, members) ==
    LET at(m) == abspath(path_join(directory, m.name))
        placed(files) ==
            [q \in files |-> FileNode((CHOOSE m \in members : at(m) = q).data,
                                      NodeAt(lc, q).ver + 1, TRUE)]
            @@ [q \in (UNION {Ancestors(f) : f \in files}) \ DOMAIN lc |-> DirNode]
            @@ lc
    IN  placed({at(m) : m \in members})

\* BaseStorage.extract: the exception, the local files afterwards, the archive's bytes
extract(archive_fp, directory, storage_subdir, lc) ==
    LET out(err, g, lc2, data) ==
            [err |-> err, lc |-> rmtree(lc2, temp_dir), data |-> data,
             opened |-> g.opened, touched |-> g.touched, o |-> g.o]
        unpack(g, n, t) ==
            IF ~t.ok THEN out("ReadError", g, g.lc, n.data)
            ELSE IF mkdir_error(g.lc, directory) # "none"
            THEN out(mkdir_error(g.lc, directory), g, g.lc, n.data)
            ELSE out("none", g, extractall(makedirs(g.lc, directory), directory, t.members),
                     n.data)
        opened(g, n) ==
            IF n.kind = "dir" THEN out("IsADirectoryError", g, g.lc, <<>>)
            ELSE IF n.data = <<>> THEN out("ReadError", g, g.lc, <<>>)
            ELSE unpack(g, n, untar(n.data))
        got(g) ==
            IF g.err # "none" THEN out(g.err, g, g.lc, <<>>)
            ELSE IF g.res = Empty THEN out("ValueError", g, g.lc, <<>>)
            ELSE opened(g, NodeAt(g.lc, abspath(g.res)))
    IN  got(get(archive_fp, path_join(temp_dir, basename(archive_fp)), storage_subdir,
                FALSE, makedirs(lc, temp_dir)))

\* arguments of extract
ExtractRefs == {R_x, R_a, R_d, R_sib}
ExtractDirs == {<<"/", "w", "/", "u">>, <<"/", "w">>}

Extract(archive_fp, directory, storage_subdir) ==
    \E e \in {extract(archive_fp, directory, storage_subdir, local)} :
        /\ local' = e.lc
        /\ last' = [Outcome("extract", archive_fp, e.err, Empty, FALSE, e.data,
                            e.opened, e.touched, e.lc)
                       EXCEPT !.target = directory]
        /\ fetched' = Remember(archive_fp, e.o)
        /\ UNCHANGED <<cache_root, store>>

(***************************************************************************)
(* The environment: the owner of the backend rewrites an object, and the   *)
(* backend's metadata call stops or resumes supplying a revision token.    *)
(***************************************************************************)
Mutable == {P_a, P_da}

WriteObject(p, c) ==
    /\ isdir(store, dirname(p))
    /\ ~isdir(store, p)
    /\ store' = FsPut(store, p, FileNode(c, NodeAt(store, p).ver + 1, NodeAt(store, p).has_etag
                                                                      \/ ~exists(store, p)))
    /\ last' = Outcome("write", Empty, "none", Empty, FALSE, <<>>, 0, {}, local)
    /\ UNCHANGED <<cache_root, local, fetched>>

ToggleETag(p) ==
    /\ isfile(store, p)
    /\ store' = [store EXCEPT ![p].has_etag = ~store[p].has_etag]
    /\ last' = Outcome("toggle", Empty, "none", Empty, FALSE, <<>>, 0, {}, local)
    /\ UNCHANGED <<cache_root, local, fetched>>

(***************************************************************************)
(* Specification.                                                          *)
(***************************************************************************)
InitStore ==
    (P_a :> FileNode(<<1>>, 1, TRUE)) @@ (P_da :> FileNode(<<1>>, 1, TRUE))
    @@ (P_rrx :> FileNode(<<2>>, 1, TRUE)) @@ (P_ox :> FileNode(<<2>>, 1, TRUE))
    @@ (root_dir :> DirNode) @@ (P_d :> DirNode) @@ (P_rr :> DirNode) @@ (P_o :> DirNode)

InitLocal ==
    (cwd :> DirNode) @@ (LocalFile :> FileNode(<<2, 1>>, 1, TRUE))
    @@ (LocalDir :> DirNode) @@ (LocalDirFile :> FileNode(<<1>>, 1, TRUE))
    @@ (LocalSubDir :> DirNode) @@ (LocalSubDirFile :> FileNode(<<2>>, 1, TRUE))

Init ==
    /\ cache_root \in {Empty, cache_dir}
    /\ store = InitStore
    /\ local = InitLocal
    /\ fetched = [r \in Refs \cup MoreRefs |-> NoPrior]
    /\ nops = 0
    /\ procs = [p \in Procs |-> Idle]
    /\ raced = {}
    /\ last = [op |-> "init", ref |-> Empty, err |-> "none", res |-> Empty, ret |-> FALSE,
               required |-> FALSE, target |-> Empty, dest |-> Empty, arcname |-> Empty,
               data |-> <<>>, opened |-> 0, warned |-> {},
               touched |-> {}, wrote |-> {},
               before |-> InitLocal, node |-> NoNode, prior |-> NoPrior]

\* one more operation, while the behaviour has fewer than bound of them; the
\* operation runs from call to return with no other call in progress
Tick(bound) == nops < bound /\ nops' = nops + 1 /\ UNCHANGED <<procs, raced>>

Next ==
    \/ \E r \in Refs, required \in BOOLEAN, t \in Targets :
          Tick(MaxOps) /\ GetFromCache(r, required, t)
    \/ \E r \in Refs, o \in OutputPaths, s \in Subdirs, required \in BOOLEAN :
          Tick(MaxOps) /\ Get(r, o, s, required)
    \/ \E r \in Refs : Tick(MaxOps) /\ Exists(r)
    \/ \E r \in Refs : Tick(MaxOps) /\ IsFile(r)
    \/ \E r \in Refs : Tick(MaxOps) /\ IsDir(r)
    \/ \E r \in JailArgs : Tick(MaxOps) /\ DeleteFile(r)
    \/ \E r \in JailArgs : Tick(MaxOps) /\ DeleteDir(r)
    \/ \E r \in Refs : Tick(MaxOps) /\ OpenRead(r)
    \/ \E r \in Refs, c \in Contents : Tick(MaxOps) /\ OpenWrite(r, c)
    \/ \E r \in PutSources, f \in PutFilenames, d \in PutSubdirs,
          x \in PutSuffixes, k \in PutArcnames : Tick(MaxOps) /\ Put(r, f, d, x, k)
    \/ \E r \in ExtractRefs, d \in ExtractDirs, s \in Subdirs :
          Tick(MaxOps) /\ Extract(r, d, s)
    \/ \E out \in Stdouts, e \in Stderrs : Tick(MaxOps) /\ CreateTraceback(out, e)
    \/ \E r \in Refs, m \in Modes, c \in FilenoWrites : Tick(MaxOps) /\ WithFileno(r, m, c)
    \/ \E p \in Mutable, c \in Contents : Tick(MaxOps) /\ WriteObject(p, c)
    \/ \E p \in Mutable : Tick(MaxOps) /\ ToggleETag(p)

Spec == Init /\ [][Next]_vars


(***************************************************************************)
(* The cache on its own: a storage with caching enabled, fetched from      *)
(* while the backend's objects are rewritten.                              *)
(***************************************************************************)
InitCache == Init /\ cache_root = cache_dir

NextCache ==
    \/ \E r \in Refs, required \in BOOLEAN, t \in Targets :
          Tick(MaxCacheOps) /\ GetFromCache(r, required, t)
    \/ \E p \in Mutable, c \in Contents : Tick(MaxCacheOps) /\ WriteObject(p, c)
    \/ \E p \in Mutable : Tick(MaxCacheOps) /\ ToggleETag(p)

SpecCache == InitCache /\ [][NextCache]_vars

(***************************************************************************)
(* get_from_cache step by step: processes that share one cache directory   *)
(* run the cached branch concurrently, interleaved at the calls that read  *)
(* or write the backend and the local filesystem, while the backend's      *)
(* objects are rewritten.                                                  *)
(***************************************************************************)
\* tempfile.gettempdir(): where NamedTemporaryFile creates its files
gettempdir == <<"/", "m">>

\* the random names NamedTemporaryFile may choose
TempNames == {<<"0">>, <<"1">>, <<"2">>}

\* tempfile.NamedTemporaryFile(delete=False) with one name for every caller
NamedTemporaryFile_shared(lc) == {path_join(gettempdir, <<"0">>)}

\* tempfile.NamedTemporaryFile(delete=False): the paths it may create, never an existing one
NamedTemporaryFile(lc) == {path_join(gettempdir, n) : n \in TempNames} \ DOMAIN lc

\* tmp.write(block)
tmp_write(lc, path, block) ==
    FsPut(lc, path, FileNode(NodeAt(lc, path).data \o block, 1, TRUE))

\* a copy of the source to the destination that is seen after its first byte
os_replace_partial(lc, src, dst) ==
    FsPut(FsRemove(lc, {src}), dst, FileNode(SubSeq(NodeAt(lc, src).data, 1, 1), 1, TRUE))

\* os.replace(src, dst): the destination gets the source's bytes in one step
os_replace(lc, src, dst) ==
    FsPut(FsRemove(lc, {src}), dst, FileNode(NodeAt(lc, src).data, 1, TRUE))

\* os.unlink(path)
os_unlink(lc, path) == FsRemove(lc, {path})

\* the references fetched concurrently, and what the object is rewritten with
RaceRefs == {R_a, R_da, R_x}
RaceContents == {<<2>>, <<1, 2>>}

InProgress(p) == procs[p].pc \in {"read", "replace", "unlink"}

\* the call of get_from_cache(reference) up to the first read of the stream
Begin(p, reference) ==
    /\ ~InProgress(p)
    /\ nops < MaxRaceOps /\ nops' = nops + 1
    /\ \E lc1 \in {makedirs(local, cache_root)} :
       \E src \in {IF is_valid_url(reference) THEN url_open(reference)
                   ELSE open_rb(reference)} :
          IF src.err # "none"
          THEN /\ local' = lc1
               /\ procs' = [procs EXCEPT ![p] =
                               [Idle EXCEPT !.pc = "done", !.ref = reference, !.err = src.err]]
          ELSE \E temp \in NamedTemporaryFile(lc1) :
               /\ local' = tmp_write(makedirs(lc1, gettempdir), temp, <<>>)
               /\ procs' = [q \in Procs |->
                               IF q = p
                               THEN [Idle EXCEPT !.pc = "read", !.ref = reference,
                                                 !.stream = src.data, !.data = src.data,
                                                 !.temp = temp,
                                                 !.solo = \A o \in Procs \ {p} : ~InProgress(o),
                                                 !.after_race = reference \in raced]
                               ELSE [procs[q] EXCEPT !.solo = FALSE]]
    /\ UNCHANGED <<cache_root, store, last, fetched, raced>>

\* one turn of the loop of _read_and_hash: fileobj.read(chunk) returns at most
\* chunk bytes, and a stream may return fewer than are left
ReadBlock(p, n) ==
    /\ procs[p].pc = "read"
    /\ n <= Len(procs[p].stream) /\ n <= procs[p].chunk
    /\ \E block \in {SubSeq(procs[p].stream, 1, n)} :
          /\ local' = tmp_write(local, procs[p].temp, block)
          /\ procs' = [procs EXCEPT ![p].h = xxh64_update(procs[p].h, block),
                                    ![p].stream = SubSeq(procs[p].stream, n + 1,
                                                         Len(procs[p].stream))]
    /\ UNCHANGED <<cache_root, store, last, fetched, nops, raced>>

\* fileobj.read(chunk) raises: the object vanished or the connection broke
ReadFail(p) ==
    /\ procs[p].pc = "read"
    /\ procs' = [procs EXCEPT ![p].pc = "done", ![p].err = "OSError"]
    /\ UNCHANGED <<cache_root, store, local, last, fetched, nops, raced>>

\* fileobj.read(chunk) returns b"": the digest is taken and cached_path.exists() is asked
EndOfStream(p) ==
    /\ procs[p].pc = "read"
    /\ procs[p].stream = <<>>
    /\ \E cached_path \in {cached_path_of(procs[p].ref, hexdigest(procs[p].h))} :
          procs' = [procs EXCEPT ![p].pc = IF exists(local, cached_path)
                                           THEN "unlink" ELSE "replace",
                                 ![p].eof = TRUE,
                                 ![p].cached = cached_path]
    /\ UNCHANGED <<cache_root, store, local, last, fetched, nops, raced>>

\* os.replace(temp_path, cached_path), and the return of the cached path
Replace(p) ==
    /\ procs[p].pc = "replace"
    /\ local' = os_replace(local, procs[p].temp, procs[p].cached)
    /\ procs' = [procs EXCEPT ![p].pc = "done", ![p].res = procs[p].cached]
    /\ UNCHANGED <<cache_root, store, last, fetched, nops, raced>>

\* os.unlink(temp_path), and the return of the cached path
Unlink(p) ==
    /\ procs[p].pc = "unlink"
    /\ local' = os_unlink(local, procs[p].temp)
    /\ procs' = [procs EXCEPT ![p].pc = "done", ![p].res = procs[p].cached]
    /\ UNCHANGED <<cache_root, store, last, fetched, nops, raced>>

\* the owner of the backend rewrites the object of a reference
RaceWrite(reference, c) ==
    /\ nops < MaxRaceOps /\ nops' = nops + 1
    /\ Jail(reference).ok
    /\ WriteObject(Jail(reference).path, c)
    /\ procs' = [q \in Procs |->
                    IF procs[q].ref = reference THEN [procs[q] EXCEPT !.solo = FALSE]
                    ELSE procs[q]]
    /\ raced' = IF \A q \in Procs : InProgress(q) /\ procs[q].ref = reference
                THEN raced \cup {reference} ELSE raced

InitRace == Init /\ cache_root = cache_dir

NextRace ==
    \/ \E p \in Procs, r \in RaceRefs : Begin(p, r)
    \/ \E p \in Procs, n \in 1..MaxLen : ReadBlock(p, n)
    \/ \E p \in Procs : ReadFail(p)
    \/ \E p \in Procs : EndOfStream(p)
    \/ \E p \in Procs : Replace(p)
    \/ \E p \in Procs : Unlink(p)
    \/ \E c \in RaceContents : RaceWrite(R_a, c)

SpecRace == InitRace /\ [][NextRace]_vars

(***************************************************************************)
(* _read_and_hash on its own: calls on every stream of up to MaxLen + 2    *)
(* bytes with every chunk size up to one more than the longest stream.     *)
(***************************************************************************)
MaxHashOps == 1

\* a call of _read_and_hash(fileobj, chunk), from the first read to the return
\* of the digest and the path of the temporary file
ReadAndHash(p, fileobj, chunk) ==
    /\ nops < MaxHashOps /\ nops' = nops + 1
    /\ \E temp \in NamedTemporaryFile(local) :
       \E rh \in {read_and_hash(fileobj, chunk)} :
          /\ local' = FsPut(makedirs(local, gettempdir), temp, FileNode(rh.temp, 1, TRUE))
          /\ procs' = [procs EXCEPT ![p] =
                          [Idle EXCEPT !.pc = "done", !.data = fileobj, !.chunk = chunk,
                                       !.eof = TRUE, !.temp = temp, !.res = rh.hash]]
    /\ UNCHANGED <<cache_root, store, last, fetched, raced>>

NextHash ==
    \E p \in Procs, fileobj \in SeqsUpTo(MaxLen + 2), chunk \in 1..(MaxLen + 3) :
        ReadAndHash(p, fileobj, chunk)

SpecHash == Init /\ [][NextHash]_vars

(***************************************************************************)
(* The operations that take a reference, called with references that       *)
(* carry a scheme, a network location or a symbolic link.                  *)
(***************************************************************************)
NextRefs ==
    \/ \E r \in MoreRefs, required \in BOOLEAN, t \in Targets :
          Tick(MaxOps) /\ GetFromCache(r, required, t)
    \/ \E r \in MoreRefs, o \in OutputPaths, s \in Subdirs, required \in BOOLEAN :
          Tick(MaxOps) /\ Get(r, o, s, required)
    \/ \E r \in MoreRefs : Tick(MaxOps) /\ Exists(r)
    \/ \E r \in MoreRefs : Tick(MaxOps) /\ IsFile(r)
    \/ \E r \in MoreRefs : Tick(MaxOps) /\ IsDir(r)
    \/ \E r \in MoreRefs : Tick(MaxOps) /\ DeleteFile(r)
    \/ \E r \in MoreRefs : Tick(MaxOps) /\ OpenRead(r)
    \/ \E r \in MoreRefs, c \in Contents : Tick(MaxOps) /\ OpenWrite(r, c)

SpecRefs == Init /\ [][NextRefs]_vars

(***************************************************************************)
(* Vocabulary of the properties.                                           *)
(***************************************************************************)
\* references that resolve outside the root, by path components
Outside == {r \in JailArgs : ~IsWithin(Jail(r).path, abspath(root_dir))}

ProbeOps == {"exists", "isfile", "isdir"}
ReadOps == {"get", "get_from_cache", "open", "open_w"}
JailOps == ProbeOps \cup ReadOps \cup {"put", "delete_file", "delete_dir"}

\* the entries of the cache directory
CacheEntries(fs) == {q \in DOMAIN fs : q # cache_dir /\ startswith(q, cache_dir \o <<sep>>)}

\* the pointer file of a reference: cache_dir/<xxh64(reference)>.ref
PointerPath(r) ==
    path_join(cache_dir, hexdigest(xxh64_update(0, Encode(r))) \o <<".", "r", "e", "f">>)

\* a call of get_from_cache that returned a cached path
CachedFetch ==
    /\ last.op = "get_from_cache" /\ cache_root # Empty
    /\ last.err = "none" /\ last.res # Empty

\* ... on an object whose revision token is the one of the previous fetch
SameToken ==
    /\ last.prior.valid /\ last.node.kind = "file"
    /\ last.node.has_etag /\ last.prior.has_etag /\ last.node.ver = last.prior.ver

(***************************************************************************)
(* C1  Jail soundness: a call whose reference resolves outside the root    *)
(* fails, or answers false when it is a probe, and no object outside the   *)
(* root is read, written or deleted.                                       *)
(***************************************************************************)
JailSoundness ==
    (last.op \in JailOps /\ last.ref \in Outside) =>
        /\ last.op \in ProbeOps => ~last.ret
        /\ last.op \in ReadOps => last.err # "none"
        /\ \A t \in last.touched :
              t.op \in {"read", "write", "delete"} => IsWithin(t.path, abspath(root_dir))

(***************************************************************************)
(* C2  A path the jail accepts is the root or a descendant of it by path   *)
(* components; a sibling directory whose name extends the root's name is   *)
(* rejected.                                                               *)
(***************************************************************************)
JoinAcceptsOnlyDescendants ==
    (last.op \in JailOps /\ Jail(last.ref).ok) =>
        IsWithin(abspath(Jail(last.ref).res), abspath(root_dir))

(***************************************************************************)
(* C3  Idempotent cache hit: a second fetch of a reference whose object    *)
(* kept its revision token returns the same path, opens no byte stream     *)
(* and writes no blob.                                                     *)
(***************************************************************************)
IdempotentCacheHit ==
    (CachedFetch /\ SameToken) =>
        /\ last.res = last.prior.res
        /\ last.opened = 0
        /\ last.wrote = {}

(***************************************************************************)
(* C4  After the first cached fetch of a reference the cache directory     *)
(* holds, flat, its pointer file <xxh64(r)>.ref and the blob; the pointer  *)
(* records the returned path, whose bytes are the object's content.        *)
(***************************************************************************)
FirstFetchWritesPointerAndBlob ==
    (CachedFetch /\ ~last.prior.valid) =>
        /\ isfile(local, PointerPath(last.ref))
        /\ NodeAt(local, PointerPath(last.ref)).data = Encode(last.res)
        /\ isfile(local, last.res)
        /\ NodeAt(local, last.res).data = last.data
        /\ \A q \in CacheEntries(local) : isfile(local, q) /\ dirname(q) = cache_dir

(***************************************************************************)
(* C5  Invariant I1: every pointer record names an existing blob holding   *)
(* the reference's content as of its last fetch, and after a changed       *)
(* object is fetched again its pointer file holds the new path.            *)
(***************************************************************************)
PointerNamesFaithfulBlob ==
    /\ \A r \in Refs :
          isfile(local, PointerPath(r)) =>
              /\ fetched[r].valid
              /\ NodeAt(local, PointerPath(r)).data = Encode(fetched[r].res)
              /\ NodeAt(local, fetched[r].res).data = fetched[r].data
    /\ (CachedFetch /\ last.prior.valid /\ last.data # last.prior.data) =>
          /\ isfile(local, PointerPath(last.ref))
          /\ NodeAt(local, PointerPath(last.ref)).data = Encode(last.res)

(***************************************************************************)
(* C6  Change detection: when the object's content differs from the one    *)
(* fetched before, the fetch returns a different path holding the new      *)
(* bytes, and the blob returned before still holds the old bytes.          *)
(***************************************************************************)
ChangeDetection ==
    (CachedFetch /\ last.prior.valid /\ last.data # last.prior.data) =>
        /\ last.res # last.prior.res
        /\ isfile(local, last.res)
        /\ NodeAt(local, last.res).data = last.data
        /\ last.data = last.node.data
        /\ isfile(local, last.prior.res)
        /\ NodeAt(local, last.prior.res).data = last.prior.data

ChangeDetectionWitness ==
    /\ CachedFetch /\ last.prior.valid /\ last.data # last.prior.data
    /\ last.node.ver # last.prior.ver
    /\ last.res # last.prior.res
    /\ NodeAt(local, last.res).data = last.data
    /\ NodeAt(local, last.prior.res).data = last.prior.data

(***************************************************************************)
(* C7  Missing-token fallback: when info() of an existing file omits the   *)
(* revision token, the fetch succeeds with the object's content, logs a    *)
(* warning naming the reference and leaves the cache directory as it was.  *)
(***************************************************************************)
MissingTokenSkipsCache ==
    (/\ last.op = "get_from_cache" /\ cache_root # Empty
     /\ last.node.kind = "file" /\ ~last.node.has_etag) =>
        /\ last.err = "none"
        /\ last.res # Empty
        /\ NodeAt(local, abspath(last.res)).data = last.node.data
        /\ last.ref \in last.warned
        /\ CacheEntries(local) = CacheEntries(last.before)

(***************************************************************************)
(* C8  Content addressing: two distinct references fetched into one cache  *)
(* root get the same path when their contents are byte-identical, and      *)
(* different paths, each holding its own bytes, when the contents differ.  *)
(***************************************************************************)
ContentAddressing ==
    \A r1, r2 \in Refs :
        (r1 # r2 /\ fetched[r1].valid /\ fetched[r2].valid) =>
            /\ fetched[r1].data = fetched[r2].data => fetched[r1].res = fetched[r2].res
            /\ fetched[r1].data # fetched[r2].data =>
                  /\ fetched[r1].res # fetched[r2].res
                  /\ NodeAt(local, fetched[r1].res).data = fetched[r1].data
                  /\ NodeAt(local, fetched[r2].res).data = fetched[r2].data

ContentAddressingWitness ==
    /\ \E r1, r2 \in Refs :
          /\ r1 # r2 /\ fetched[r1].valid /\ fetched[r2].valid
          /\ fetched[r1].data = fetched[r2].data /\ fetched[r1].res = fetched[r2].res
    /\ \E r1, r2 \in Refs :
          /\ r1 # r2 /\ fetched[r1].valid /\ fetched[r2].valid
          /\ fetched[r1].data # fetched[r2].data /\ fetched[r1].res # fetched[r2].res

(***************************************************************************)
(* C9  The probes never raise: they answer false for every path that       *)
(* resolves outside the root, even when a file exists there, and the       *)
(* backend's answer for a path inside the root.                            *)
(***************************************************************************)
ProbesFalseOutsideRoot ==
    last.op \in ProbeOps =>
        /\ last.err = "none"
        /\ last.ref \in Outside => ~last.ret
        /\ last.ref \notin Outside =>
              last.ret = (IF last.op = "exists" THEN exists(store, Jail(last.ref).path)
                          ELSE IF last.op = "isfile" THEN isfile(store, Jail(last.ref).path)
                          ELSE isdir(store, Jail(last.ref).path))

(***************************************************************************)
(* C10  get of a reference that resolves outside the root raises           *)
(* FileNotFoundError, with caching enabled or disabled, and creates no     *)
(* file with the outside content.                                          *)
(***************************************************************************)
GetOutsideRootRaises ==
    (last.op = "get" /\ last.ref \in Outside) =>
        /\ last.err = "FileNotFoundError"
        /\ last.wrote = {}

(***************************************************************************)
(* Vocabulary of the properties of delete_file and delete_dir.             *)
(***************************************************************************)
DeleteOps == {"delete_file", "delete_dir"}

\* the backend path a reference leads to
Resolved(r) == Jail(r).path

\* references that resolve to exactly the storage's root directory
RootRefs == {r \in JailArgs : Resolved(r) = abspath(root_dir)}

(***************************************************************************)
(* C11  delete_file and delete_dir of a reference that resolves outside    *)
(* the root do not raise and delete nothing: the backend's objects are     *)
(* after the call what they were before it, and the backend's delete is    *)
(* not invoked.                                                            *)
(***************************************************************************)
DeleteOutsideRootIsNoOp ==
    [][(last'.op \in DeleteOps /\ last'.ref \in Outside) =>
          /\ last'.err = "none"
          /\ store' = store
          /\ \A t \in last'.touched : t.op # "delete"]_vars

(***************************************************************************)
(* C12  delete_dir refuses to delete the jail root: for every reference    *)
(* that resolves to exactly the storage's root directory it deletes        *)
(* nothing, and the root and all its contents still exist afterwards.      *)
(***************************************************************************)
DeleteDirRefusesRoot ==
    [][(last'.op = "delete_dir" /\ last'.ref \in RootRefs) =>
          /\ store' = store
          /\ last'.touched = {}]_vars

(***************************************************************************)
(* C13  delete_file removes its target only when the reference is a        *)
(* confirmed file inside the root, and delete_dir only when it is a        *)
(* confirmed directory: on the other kind the store is unchanged; on a     *)
(* file, and on a directory other than the root, the reference no longer   *)
(* exists afterwards.                                                      *)
(***************************************************************************)
DeleteOnlyConfirmedKind ==
    [][/\ last'.op = "delete_file" =>
             IF last'.ref \notin Outside /\ isfile(store, Resolved(last'.ref))
             THEN ~exists(store', Resolved(last'.ref))
             ELSE store' = store
       /\ (last'.op = "delete_dir" /\ last'.ref \notin RootRefs) =>
             IF last'.ref \notin Outside /\ isdir(store, Resolved(last'.ref))
             THEN ~exists(store', Resolved(last'.ref))
             ELSE store' = store]_vars

(***************************************************************************)
(* Vocabulary of the properties of concurrent fetches.                     *)
(***************************************************************************)
\* a call that returned normally
Returned(p) == procs[p].pc = "done" /\ procs[p].err = "none"

\* every file of the cache directory is named by the digest of the bytes it holds
BlobsIntact(fs) ==
    \A q \in CacheEntries(fs) :
        isfile(fs, q) /\ basename(q) = hexdigest(xxh64_update(0, fs[q].data))

\* a temporary file that holds a part of the stream only
PartialTemp(p) ==
    /\ procs[p].pc = "read"
    /\ procs[p].stream # <<>>
    /\ NodeAt(local, procs[p].temp).data # <<>>

(***************************************************************************)
(* C14  Atomic publication: in every interleaving of the steps of          *)
(* get_from_cache, at every moment a reader may look, a file visible in    *)
(* the cache directory at a final blob name holds complete content, the    *)
(* bytes its name is the digest of, never a part of them.                  *)
(***************************************************************************)
AtomicPublication == BlobsIntact(local)

AtomicPublicationWitness ==
    \E p \in Procs :
        /\ PartialTemp(p)
        /\ CacheEntries(local) # {}
        /\ ~exists(local, cached_path_of(procs[p].ref,
                                         hexdigest(xxh64_update(0, procs[p].data))))

(***************************************************************************)
(* C15  Racing writers are harmless: when two processes fetch the same     *)
(* reference with the same content, in every interleaving of their         *)
(* exists-check, rename and unlink steps both calls return, with the same  *)
(* path, and the blob at that path holds exactly the object's bytes.       *)
(***************************************************************************)
RacingWritersAgree ==
    \A p, q \in Procs :
        (/\ p # q
         /\ procs[p].pc = "done" /\ procs[q].pc = "done"
         /\ procs[p].eof /\ procs[q].eof
         /\ procs[p].ref = procs[q].ref /\ procs[p].data = procs[q].data) =>
            /\ procs[p].err = "none" /\ procs[q].err = "none"
            /\ procs[p].res = procs[q].res
            /\ isfile(local, procs[p].res)
            /\ NodeAt(local, procs[p].res).data = procs[p].data

RacingWritersWitness ==
    \E p, q \in Procs :
        /\ p # q
        /\ Returned(p) /\ Returned(q)
        /\ ~procs[p].solo /\ ~procs[q].solo
        /\ procs[p].ref = procs[q].ref /\ procs[p].data = procs[q].data
        /\ procs[p].ref \notin raced
        /\ procs[p].res = procs[q].res
        /\ NodeAt(local, procs[p].res).data = procs[p].data

(***************************************************************************)
(* C16  Self-correction after a same-reference race: once two overlapping  *)
(* fetches of one reference have overlapped a change of the object, no     *)
(* cached blob has been altered, and the next fetch of the reference, made *)
(* alone with the backend quiescent, returns a path that holds the         *)
(* object's current content and leaves the pointer file naming that path.  *)
(***************************************************************************)
SelfCorrectionAfterRace ==
    \A p \in Procs :
        (Returned(p) /\ procs[p].after_race /\ procs[p].solo) =>
            /\ BlobsIntact(local)
            /\ NodeAt(local, procs[p].res).data = NodeAt(store, Jail(procs[p].ref).path).data
            /\ isfile(local, PointerPath(procs[p].ref))
            /\ NodeAt(local, PointerPath(procs[p].ref)).data = Encode(procs[p].res)

(***************************************************************************)
(* C17  No temporary file leaks: when a call has finished, normally or     *)
(* with an error, the temporary file it created is gone, unless it was     *)
(* renamed into place as a blob; the temporary files that exist belong to  *)
(* calls still in progress.                                                *)
(***************************************************************************)
NoTemporaryFileLeaks ==
    \A f \in FilesBelow(local, gettempdir) :
        \E p \in Procs : InProgress(p) /\ procs[p].temp = f

(***************************************************************************)
(* C18  Failure atomicity of the cache: a call of get_from_cache that      *)
(* fails on a backend error fails with a TransferError, and the step that  *)
(* fails leaves the files of the cache directory and their contents        *)
(* exactly as they were.                                                   *)
(***************************************************************************)
FailureLeavesCacheAsItWas ==
    [][\A p \in Procs :
          (procs'[p] # procs[p] /\ procs'[p].pc = "done" /\ procs'[p].err # "none") =>
              /\ procs'[p].err = "TransferError"
              /\ \A q \in CacheEntries(local) \cup CacheEntries(local') :
                    NodeAt(local, q) = NodeAt(local', q)]_vars

(***************************************************************************)
(* C19  For a reference that names an object which does not exist in the   *)
(* backend, get_from_cache raises MissingInputsException when required is  *)
(* true and returns None when it is false.                                 *)
(***************************************************************************)
MissingObjectRaisesOrNone ==
    (/\ last.op = "get_from_cache"
     /\ last.ref # Empty /\ ~is_valid_url(last.ref) /\ last.ref \notin Outside
     /\ last.node.kind = "none"
     /\ cache_root # Empty \/ last.err # "OasisException") =>
        /\ last.required => last.err = "MissingInputsException"
        /\ ~last.required => (last.err = "none" /\ last.res = Empty)

(***************************************************************************)
(* C20  For an empty reference, get and get_from_cache raise               *)
(* MissingInputsException when required is true and return None when it    *)
(* is false, before any backend call, with the cache directory and the     *)
(* output target unchanged.                                                *)
(***************************************************************************)
EmptyReferenceRaisesOrNone ==
    (last.op \in {"get", "get_from_cache"} /\ last.ref = Empty) =>
        /\ last.err = (IF last.required THEN "MissingInputsException" ELSE "none")
        /\ last.res = Empty
        /\ last.opened = 0 /\ last.touched = {}
        /\ last.wrote = {}
        /\ local = last.before

EmptyReferenceWitness ==
    /\ last.op = "get" /\ last.ref = Empty
    /\ last.required /\ last.err = "MissingInputsException"
    /\ nops = MaxOps /\ CacheEntries(local) # {}
    /\ local = last.before

\* the local files a call created, rewrote or removed inside the cache directory
CacheChanged ==
    {q \in CacheEntries(local) \cup CacheEntries(last.before) :
        NodeAt(local, q) # NodeAt(last.before, q)}

(***************************************************************************)
(* C21  With caching enabled, get_from_cache on a reference that the       *)
(* backend reports as a directory fails with an OasisException and         *)
(* creates no pointer and no blob.                                         *)
(***************************************************************************)
DirectoryIsNotAFile ==
    (/\ last.op = "get_from_cache" /\ cache_root # Empty
     /\ last.ref # Empty /\ ~is_valid_url(last.ref)
     /\ last.node.kind = "dir") =>
        /\ last.err \in {"OasisException", "MissingInputsException"}
        /\ CacheChanged = {}

\* a call of get_from_cache with caching disabled on a reference that is not empty
UncachedFetch ==
    /\ last.op = "get_from_cache" /\ cache_root = Empty
    /\ last.ref # Empty

(***************************************************************************)
(* C22  With caching disabled, get_from_cache with a non-empty reference   *)
(* and no fallback target raises OasisException for every reference,       *)
(* whether or not the object exists, before any backend call and without   *)
(* creating any file or directory.                                         *)
(***************************************************************************)
NoTargetIsConfigurationError ==
    (UncachedFetch /\ last.target = Empty) =>
        /\ last.err = "OasisException"
        /\ last.res = Empty
        /\ last.opened = 0 /\ last.touched = {}
        /\ local = last.before

NoTargetWitness ==
    /\ UncachedFetch /\ last.target = Empty
    /\ last.node.kind = "file" /\ ~last.required
    /\ last.err = "OasisException"
    /\ local = last.before

\* the object a reference names is there to be fetched, and its bytes
ObjectExists ==
    IF is_valid_url(last.ref) THEN WebHas(last.ref) ELSE last.node.kind = "file"

ObjectBytes ==
    IF is_valid_url(last.ref) THEN WebData(last.ref) ELSE last.node.data

\* the call returned the target, which now holds the object's bytes, and wrote nothing else
TargetHoldsObject ==
    /\ last.err = "none"
    /\ last.res = last.target
    /\ isfile(local, abspath(last.target))
    /\ NodeAt(local, abspath(last.target)).data = ObjectBytes
    /\ last.wrote = {abspath(last.target)}
    /\ CacheEntries(local) = {}

GetOfObject ==
    /\ last.op = "get" /\ last.ref # Empty
    /\ ObjectExists /\ last.ref \notin Outside
    /\ mkdir_error(last.before, dirname(last.target)) = "none"

\* the blob get_from_cache resolved for the object of the last call
ResolvedBlob == cached_path_of(last.ref, read_and_hash(ObjectBytes, DefaultChunk).hash)

(***************************************************************************)
(* C24  get(reference, output_path) for an existing object inside the      *)
(* root returns the target path, the file at the target holds exactly the  *)
(* object's bytes, and with caching enabled the target is a separate       *)
(* copy: the blob that was resolved keeps its name and bytes, and no blob  *)
(* that was there before the call is changed.                              *)
(***************************************************************************)
GetCopiesObjectToTarget ==
    GetOfObject =>
        /\ last.err = "none"
        /\ last.res = last.target
        /\ isfile(local, abspath(last.res))
        /\ NodeAt(local, abspath(last.res)).data = ObjectBytes
        /\ cache_root # Empty =>
            /\ abspath(last.res) # ResolvedBlob
            /\ isfile(local, ResolvedBlob)
            /\ NodeAt(local, ResolvedBlob).data = ObjectBytes
            /\ \A q \in CacheEntries(last.before) : NodeAt(local, q) = NodeAt(last.before, q)

\* a call of put on the single local file, with a file name supplied, that returned
PutOfFile ==
    /\ last.op = "put" /\ last.target = LocalFile
    /\ last.ref # Empty
    /\ last.err = "none"

\* where the jail puts a returned reference, and whether that is below the root
StoredAt(r) == abspath(dirfs_join(r))

(***************************************************************************)
(* C25  put of a single existing local file with a supplied filename       *)
(* stores the file's bytes verbatim at root/<subdir>/<filename> inside     *)
(* the jail and returns that stored reference, so that a following get of  *)
(* the returned reference yields a file with bytes identical to the        *)
(* original.                                                               *)
(***************************************************************************)
PutStoresFileInsideJail ==
    PutOfFile =>
        /\ last.res \in {last.ref, path_join(<<"d">>, last.ref)}
        /\ IsWithin(StoredAt(last.res), root_dir)
        /\ isfile(store, StoredAt(last.res))
        /\ NodeAt(store, StoredAt(last.res)).data = NodeAt(local, LocalFile).data

\* a call of put whose reference is empty or names nothing on the local filesystem
PutOfNothing ==
    /\ last.op = "put"
    /\ last.target = Empty \/ ~exists(last.before, abspath(last.target))

(***************************************************************************)
(* C27  put returns None and leaves the store unchanged (no object         *)
(* created, no directory created, no backend call) when its reference is   *)
(* empty or names neither an existing local file nor an existing local     *)
(* directory.                                                              *)
(***************************************************************************)
PutOfNothingIsNoOp ==
    [][(/\ last'.op = "put"
        /\ last'.target = Empty \/ ~exists(local, abspath(last'.target))) =>
          /\ last'.err = "none" /\ last'.res = Empty
          /\ last'.touched = {}
          /\ store' = store]_vars

PutOfNothingWitness ==
    /\ PutOfNothing /\ last.target # Empty /\ last.ref # Empty
    /\ last.err = "none" /\ last.res = Empty
    /\ store # InitStore

\* the file name get derives from its reference
DerivedName ==
    IF is_valid_url(last.ref) THEN basename(urlparse(last.ref).path) ELSE last.ref

\* a call of get that fetched an object and returned
GetReturned ==
    /\ last.op = "get" /\ last.ref # Empty /\ ObjectExists
    /\ last.err = "none" /\ last.res # Empty

(***************************************************************************)
(* C30  get's target placement: the target is output_path joined with      *)
(* subdir (or output_path alone when subdir is empty); when that target    *)
(* is an existing directory, the file is written inside that same          *)
(* directory under a name derived from the reference (the basename of the  *)
(* URL's path when the reference is a URL), and get returns that path.     *)
(***************************************************************************)
GetPlacesTarget ==
    GetReturned =>
        /\ abspath(last.res) =
              (IF isdir(last.before, last.dest)
               THEN abspath(path_join(last.dest, DerivedName))
               ELSE last.dest)
        /\ isfile(local, abspath(last.res))
        /\ NodeAt(local, abspath(last.res)).data = ObjectBytes

\* a file of the original directory, as a path relative to it
RelativeTo(d, f) == SubSeq(f, Len(d) + 2, Len(f))

(***************************************************************************)
(* C26  Directory round trip: put(directory) stores a single archive       *)
(* object, and extract of that stored reference into a directory D         *)
(* (created if absent) reproduces every file of the original directory     *)
(* under D at its original relative path with identical bytes.             *)
(***************************************************************************)
DirectoryRoundTrip ==
    [][(/\ last.op = "put" /\ last.target = LocalDir /\ last.arcname = Empty
        /\ last.err = "none" /\ last.res # Empty
        /\ last'.op = "extract" /\ last'.ref = last.res) =>
          /\ last.node.kind = "file"
          /\ last.touched = {Touch("write", Jail(last.res).path)}
          /\ last'.err = "none"
          /\ isdir(local', abspath(last'.target))
          /\ \A f \in FilesBelow(local, LocalDir) :
                /\ isfile(local', abspath(path_join(last'.target, RelativeTo(LocalDir, f))))
                /\ NodeAt(local', abspath(path_join(last'.target, RelativeTo(LocalDir, f)))).data
                      = NodeAt(local, f).data]_vars

DirectoryRoundTripWitness ==
    /\ last.op = "extract" /\ last.err = "none"
    /\ last.target \in ExtractDirs /\ ~exists(last.before, abspath(last.target))
    /\ \A f \in FilesBelow(last.before, LocalDir) :
          NodeAt(local, abspath(path_join(last.target, RelativeTo(LocalDir, f)))).data
              = NodeAt(last.before, f).data
    /\ Cardinality(FilesBelow(local, abspath(last.target))) = 2

(***************************************************************************)
(* C28  create_traceback(stdout, stderr) stores a log object whose         *)
(* content is stdout followed by stderr (each omitted when empty) and      *)
(* returns the reference under which that object is stored, so that a      *)
(* following get of the returned reference yields exactly that text.       *)
(***************************************************************************)
TracebackHoldsOutput ==
    last.op = "create_traceback" =>
        /\ last.err = "none" /\ last.res # Empty
        /\ last.node.kind = "file"
        /\ last.node.data = last.data

(***************************************************************************)
(* C29  Blob permanence: once a blob exists in the cache directory, after  *)
(* any sequence of public storage operations (get, get_from_cache, open,   *)
(* with_fileno with any mode, put, extract, delete_file, delete_dir) it    *)
(* still exists at the same path with the same bytes, so the name of       *)
(* every blob always equals the content hash of its bytes.                 *)
(***************************************************************************)
BlobPermanence ==
    [][/\ \A q \in CacheEntries(local) :
             q \in DOMAIN local' /\ local'[q].data = local[q].data
       /\ BlobsIntact(local')]_vars

(***************************************************************************)
(* Vocabulary of the independence of references.                           *)
(***************************************************************************)
\* process p takes the step: a field that only its own call changes differs
Acts(p) ==
    <<procs'[p].pc, procs'[p].ref, procs'[p].stream, procs'[p].temp>>
        # <<procs[p].pc, procs[p].ref, procs[p].stream, procs[p].temp>>

(***************************************************************************)
(* C31  Independence of references: in every interleaving of the steps of  *)
(* get_from_cache calls, a step of a call for reference A leaves the       *)
(* pointer file of every other reference B and the blob a fetch of B       *)
(* returned as they were, and every call that returns, returns a path      *)
(* that holds the content streamed from its own reference.                 *)
(***************************************************************************)
IndependenceOfReferences ==
    [][/\ \A p, q \in Procs :
             (/\ Acts(p)
              /\ procs[q].pc = "done" /\ procs[q].err = "none"
              /\ procs'[p].ref # procs[q].ref) =>
                 /\ NodeAt(local', procs[q].res) = NodeAt(local, procs[q].res)
                 /\ NodeAt(local', PointerPath(procs[q].ref))
                        = NodeAt(local, PointerPath(procs[q].ref))
       /\ \A p \in Procs :
             (procs'[p].pc = "done" /\ procs'[p].err = "none") =>
                 /\ isfile(local', procs'[p].res)
                 /\ NodeAt(local', procs'[p].res).data = procs'[p].data]_vars

IndependenceWitness ==
    \E p, q \in Procs :
        /\ Returned(p) /\ Returned(q)
        /\ ~procs[p].solo /\ ~procs[q].solo
        /\ procs[p].ref # procs[q].ref
        /\ procs[p].data # procs[q].data
        /\ procs[p].res # procs[q].res
        /\ NodeAt(local, procs[p].res).data = procs[p].data
        /\ NodeAt(local, procs[q].res).data = procs[q].data

(***************************************************************************)
(* Vocabulary of the streaming read.                                       *)
(***************************************************************************)
\* a call of _read_and_hash that returned
HashCall(p) == procs[p].pc = "done" /\ procs[p].eof /\ procs[p].chunk >= 1

\* the blocks the call's reads returned
BlocksRead(p) == read_blocks(procs[p].data, procs[p].chunk)

(***************************************************************************)
(* C33  Single-pass streaming is chunk-independent: for every stream and   *)
(* every positive chunk size, _read_and_hash ends after finitely many      *)
(* reads whose blocks are non-empty, at most chunk long and make up the    *)
(* stream byte for byte, the temporary file holds the whole stream in      *)
(* order, and the digest returned is the digest of the whole stream: the   *)
(* same digest and bytes as with one chunk that takes the whole stream.    *)
(***************************************************************************)
ChunkIndependence ==
    \A p \in Procs :
        HashCall(p) =>
            /\ \A i \in 1..Len(BlocksRead(p)) :
                  BlocksRead(p)[i] # <<>> /\ Len(BlocksRead(p)[i]) <= procs[p].chunk
            /\ Len(BlocksRead(p)) * procs[p].chunk < Len(procs[p].data) + procs[p].chunk
            /\ write_blocks(<<>>, BlocksRead(p)) = procs[p].data
            /\ isfile(local, procs[p].temp)
            /\ NodeAt(local, procs[p].temp).data = procs[p].data
            /\ procs[p].res = hexdigest(xxh64_update(0, procs[p].data))
            /\ read_and_hash(procs[p].data, Len(procs[p].data) + 1)
                  = [hash |-> procs[p].res, temp |-> NodeAt(local, procs[p].temp).data]

ChunkIndependenceWitness ==
    \E p \in Procs :
        /\ HashCall(p)
        /\ procs[p].chunk > 1
        /\ Len(BlocksRead(p)) > 1
        /\ Len(procs[p].data) % procs[p].chunk # 0
        /\ NodeAt(local, procs[p].temp).data = procs[p].data
        /\ procs[p].res = hexdigest(xxh64_update(0, procs[p].data))

(***************************************************************************)
(* Vocabulary of the routing of references.                                *)
(***************************************************************************)
\* the references with scheme http or https and a network location
WebRefs == {R_url, <<"h", "t", "t", "p", "s", ":", "/", "/", "h", "/", "a">>}

\* the operations that fetch or open what a reference names
FetchOps == {"get_from_cache", "get", "open", "open_w"}

\* the call asked the web for a URL
Requested == \E t \in last.touched : t.op = "GET"

(***************************************************************************)
(* C34  A reference is fetched by an anonymous HTTP(S) GET, with no call   *)
(* of the jailed filesystem, if and only if it parses with scheme http or  *)
(* https and a non-empty network location; every other non-empty           *)
(* reference (a path, file:// or another scheme, http: without a host, a   *)
(* host without a scheme) is never requested from the web and reaches      *)
(* only the object its jailed path names, in get_from_cache, get and open  *)
(* alike.                                                                  *)
(***************************************************************************)
SchemeDecidesRoute ==
    (last.op \in FetchOps /\ last.ref # Empty) =>
        /\ is_valid_url(last.ref) = (last.ref \in WebRefs)
        /\ Requested => last.ref \in WebRefs
        /\ last.ref \in WebRefs =>
              /\ \A t \in last.touched : t = Touch("GET", last.ref)
              /\ last.err \in {"none", "URLError"} /\ last.target # Empty => Requested
              /\ (last.err = "none" /\ last.res # Empty) =>
                    Requested /\ last.data = WebData(last.ref)
        /\ last.ref \notin WebRefs =>
              /\ \A t \in last.touched :
                    t.op \in {"read", "write"} /\ t.path = Jail(last.ref).path
              /\ (last.err = "none" /\ last.op # "open_w" /\ last.res # Empty) =>
                    /\ last.touched = {Touch("read", Jail(last.ref).path)}
                    /\ last.data = NodeAt(store, Jail(last.ref).path).data

SchemeDecidesRouteWitness ==
    /\ last.op = "get"
    /\ last.ref = <<"h", "t", "t", "p", "s", ":", "/", "/", "h", "/", "a">>
    /\ last.err = "none" /\ last.res # Empty
    /\ last.touched = {Touch("GET", last.ref)}
    /\ last.data = WebData(last.ref)
    /\ NodeAt(local, abspath(last.res)).data = WebData(last.ref)

(***************************************************************************)
(* Vocabulary of the jail and symbolic links.                              *)
(***************************************************************************)
\* references whose joined path lies inside the root as written and leads, through
\* a symbolic link, to a path outside the root
LinkedOut ==
    {r \in MoreRefs : /\ IsWithin(abspath(Jail(r).res), abspath(root_dir))
                      /\ ~IsWithin(Jail(r).path, abspath(root_dir))}

(***************************************************************************)
(* C32  The jail holds against symbolic links: a call whose reference lies *)
(* inside the root as written but passes through a symbolic link that      *)
(* points outside the root fails, or answers false when it is a probe, and *)
(* no object outside the root is read, written or deleted through it.      *)
(***************************************************************************)
JailHoldsAgainstLinks ==
    (last.op \in JailOps /\ last.ref \in LinkedOut) =>
        /\ last.op \in ProbeOps => ~last.ret
        /\ last.op \in ReadOps => last.err # "none"
        /\ \A t \in last.touched :
              t.op \in {"read", "write", "delete"} => IsWithin(t.path, abspath(root_dir))

====
